---------------------------- MODULE Spec2Model ----------------------------
(***************************************************************************)
(* Verification model of the StampCoin platform's valuation, minting and   *)
(* ledger pipeline.                                                         *)
(*                                                                         *)
(*   MintSpec : server/archive-router.ts, procedures mintNFT and           *)
(*              getCurrencyStats, running as concurrent requests over the  *)
(*              relational store.                                          *)
(*   PinSpec  : api/pin.js, the serverless pinning endpoint with its two   *)
(*              providers (NFT.Storage primary, Pinata secondary).         *)
(*              PinLiveSpec adds fairness of the primary's answer,         *)
(*              PinAnsweredSpec fairness of both providers' answers.       *)
(*   ChainSpec: contracts/StampCoinNFT.sol, transactions sent to the       *)
(*              deployed contract.                                         *)
(*   HookSpec : server/stripe-webhook.ts, one request to                   *)
(*              handleStripeWebhook.                                       *)
(*   ServiceSpec : server/nft-minting.ts, one call of mintNft.             *)
(*   PriceSpec: server/archive-router.ts, one calculatePrice query.        *)
(*                                                                         *)
(* server/stamp-archive.ts (createNFTFromStamp) and drizzle/schema.ts are  *)
(* not part of the sources at hand; the definitions that stand for them    *)
(* follow the design document and say so where they are defined.           *)
(* archive-router.ts imports getDb and then uses a handle named db; db is  *)
(* taken to be the open connection to the store.                           *)
(***************************************************************************)
EXTENDS Integers, Sequences, FiniteSets, TLC

VARIABLES
    \* ---- relational store (archive-router.ts) ----
    stampNFT,              \* rows of table stampNFT (the MintRecords)
    currencyDistribution,  \* rows of table currencyDistribution
    platformCurrency,      \* rows of table platformCurrency (the LedgerAggregate)
    serialCounter,         \* SerialCounter rows: scopeKey -> last sequence issued
    \* ---- one mintNFT request per caller ----
    pc,                    \* position of each mintNFT request
    item,                  \* opts.input.stampArchiveId of the request
    serial,                \* nftData.serialNumber of the request (sequence part)
    nftId,                 \* nft[0].id of the request, 0 before the insert
    pinned,                \* outcome of the primary pin inside createNFTFromStamp
    outcome,               \* what the request returned or threw
    startedMinted,         \* history: the item had a MintRecord when the call began
    \* ---- one getCurrencyStats request per reader ----
    rpc,                   \* position of each getCurrencyStats request
    rdata,                 \* the row the request returned (<<>> before)
    \* ---- the pinning endpoint (api/pin.js) ----
    env,                   \* process.env: which credentials are configured
    req,                   \* the request being handled
    ppc,                   \* position of the handler
    calls,                 \* provider network calls issued for the request
    primaryOutcome,        \* how pinToNFTStorage ended ("none" before)
    secondaryOutcome,      \* how pinToPinata ended ("none" before)
    res,                   \* the response sent (status 0 before)
    \* ---- contract StampCoinNFT ----
    tokenIdCounter,        \* _tokenIdCounter
    tokenOwner,            \* ERC721 owners: tokenId -> address (zero: none)
    stampData,             \* mapping stampData
    physicalStampToToken,  \* mapping physicalStampToToken
    roleMembers,           \* AccessControl: role -> accounts holding it
    royaltyReceiver,       \* royaltyReceiver
    blockTime,             \* block.timestamp of the next transaction
    lastCall,              \* the last call: function, sender, outcome, result
    \* ---- handleStripeWebhook (stripe-webhook.ts) ----
    hreq,                  \* the webhook request being handled
    hpc,                   \* position of the handler
    constructCalls,        \* calls of stripe.webhooks.constructEvent so far
    handlerCalls,          \* event handlers invoked, in order
    hres,                  \* responses sent, in order
    \* ---- mintNft (nft-minting.ts) ----
    mreq,                  \* the MintingRequest
    mres,                  \* how the call ended
    \* ---- calculatePrice (archive-router.ts) ----
    priceInput,            \* opts.input of the query
    priceResult            \* what the query returned

mintVars == <<stampNFT, currencyDistribution, platformCurrency, serialCounter,
              pc, item, serial, nftId, pinned, outcome, startedMinted, rpc, rdata>>

pinVars == <<env, req, ppc, calls, primaryOutcome, secondaryOutcome, res>>

chainVars == <<tokenIdCounter, tokenOwner, stampData, physicalStampToToken,
               roleMembers, royaltyReceiver, blockTime, lastCall>>

hookVars == <<hreq, hpc, constructCalls, handlerCalls, hres>>

serviceVars == <<mreq, mres>>

priceVars == <<priceInput, priceResult>>

vars == <<stampNFT, currencyDistribution, platformCurrency, serialCounter,
          pc, item, serial, nftId, pinned, outcome, startedMinted, rpc, rdata,
          env, req, ppc, calls, primaryOutcome, secondaryOutcome, res,
          tokenIdCounter, tokenOwner, stampData, physicalStampToToken,
          roleMembers, royaltyReceiver, blockTime, lastCall,
          hreq, hpc, constructCalls, handlerCalls, hres,
          mreq, mres, priceInput, priceResult>>

\* what the steps of one component leave alone
besideMint == <<pinVars, chainVars, hookVars, serviceVars, priceVars>>
besidePin == <<mintVars, chainVars, hookVars, serviceVars, priceVars>>
besideChain == <<mintVars, pinVars, hookVars, serviceVars, priceVars>>
besideHook == <<mintVars, pinVars, chainVars, serviceVars, priceVars>>
besideService == <<mintVars, pinVars, chainVars, hookVars, priceVars>>
besidePrice == <<mintVars, pinVars, chainVars, hookVars, serviceVars>>

---------------------------------------------------------------------------
(* Bounds of the model *)

\* concurrent mintNFT requests; request c is made by user c (ctx.user.id = c)
NumCallers == 2
\* catalogued stamps 1..NumItems; the next id is an archive id with no catalog row
NumItems == 2
\* concurrent getCurrencyStats requests
NumReaders == 2

Callers == 1..NumCallers
Items == 1..NumItems
MissingItem == NumItems + 1
Readers == 1..NumReaders

---------------------------------------------------------------------------
(* Values taken from the code *)

\* getCurrencyStats: maxSupply of the initial platformCurrency row
MaxSupply == 1000000

\* the platformCurrency row getCurrencyStats inserts when it finds none
InitialCurrencyBad(id) ==
    [id |-> id, totalSupply |-> 0, circulatingSupply |-> MaxSupply,
     maxSupply |-> 0, burnedSupply |-> 0]

InitialCurrency(id) ==
    [id |-> id, totalSupply |-> 0, circulatingSupply |-> 0,
     maxSupply |-> MaxSupply, burnedSupply |-> 0]

\* mintNFT's catch block: console.error, then `throw error` (the error as caught)
CaughtErrorGeneric(err) == "InternalError"

CaughtError(err) == err

\* mintNFT awaits createNFTFromStamp inside the try block: the inserts run only
\* when it resolved, a rejection goes to the catch block
AfterCreateUnchecked(resolved) == "insert_nft"

AfterCreate(resolved) == IF resolved THEN "insert_nft" ELSE "done"

---------------------------------------------------------------------------
(* Parts that follow the design document (stamp-archive.ts, schema.ts) *)

\* scopeKey of the Serial Allocator: item.country; odd and even ids stand for
\* stamps of two countries
Scopes == {"DE", "FR"}

CountryOf(i) == IF i % 2 = 1 THEN "DE" ELSE "FR"

\* nftData.stampCoinValue = convertValuationToCurrency(valuate(item).finalValue),
\* a deterministic function of the catalog row
StampCoinValue(i) == 500000 + 100000 * i

\* unique constraint on MintRecord.catalogItemId
ArchiveIdTaken(rows, archiveId) == \E r \in rows : r.archiveId = archiveId

\* unique constraint on MintRecord.serialNumber
SerialTaken(rows, sn) == \E r \in rows : r.serialNumber = sn

---------------------------------------------------------------------------
(* Helpers over the store *)

RECURSIVE SumAmounts(_)
SumAmounts(rows) ==
    IF rows = {} THEN 0
    ELSE LET r == CHOOSE x \in rows : TRUE
         IN  r.amount + SumAmounts(rows \ {r})

CompletedRows == {d \in currencyDistribution : d.status = "completed"}

\* sum of the amounts of the completed distributions
CompletedTotal == SumAmounts(CompletedRows)

NextId(rows) == Cardinality(rows) + 1

\* rows written by request c: it runs as user c on stamp item[c]
NFTRowsOf(c) == {r \in stampNFT : r.ownerId = c /\ r.archiveId = item[c]}

DistRowsOf(c) == {d \in currencyDistribution : d.userId = c /\ d.archiveId = item[c]}

---------------------------------------------------------------------------
(* Initial state: empty tables, no request started *)

MintInit ==
    /\ stampNFT = {}
    /\ currencyDistribution = {}
    /\ platformCurrency = {}
    /\ serialCounter = [s \in Scopes |-> 0]
    /\ pc = [c \in Callers |-> "idle"]
    /\ item = [c \in Callers |-> MissingItem]
    /\ serial = [c \in Callers |-> 0]
    /\ nftId = [c \in Callers |-> 0]
    /\ pinned = [c \in Callers |-> "none"]
    /\ outcome = [c \in Callers |-> "none"]
    /\ startedMinted = [c \in Callers |-> FALSE]
    /\ rpc = [r \in Readers |-> "idle"]
    /\ rdata = [r \in Readers |-> <<>>]

---------------------------------------------------------------------------
(* mintNFT *)

\* an insert throws err inside the try block: the catch block rethrows it
Throw(c, err) ==
    /\ pc' = [pc EXCEPT ![c] = "done"]
    /\ outcome' = [outcome EXCEPT ![c] = CaughtError(err)]

\* createNFTFromStamp rejects with err: mintNFT goes where a rejected await
\* sends it, and a request that ends there ends with the error as caught
Reject(c, err) ==
    /\ pc' = [pc EXCEPT ![c] = AfterCreate(FALSE)]
    /\ outcome' = [outcome EXCEPT ![c] =
                       IF AfterCreate(FALSE) = "done" THEN CaughtError(err) ELSE @]

\* a client calls mintNFT({stampArchiveId: i}) and createNFTFromStamp begins with
\* step 1, the lookup of the catalog item (catalog rows never change). Callers
\* are interchangeable, so request c starts only after request c-1 has.
MintCall(c, i) ==
    /\ pc[c] = "idle"
    /\ c > 1 => pc[c - 1] # "idle"
    /\ item' = [item EXCEPT ![c] = i]
    /\ startedMinted' = [startedMinted EXCEPT ![c] = ArchiveIdTaken(stampNFT, i)]
    /\ IF i \in Items
       THEN pc' = [pc EXCEPT ![c] = "check"] /\ UNCHANGED outcome
       ELSE Reject(c, "NotFound")
    /\ UNCHANGED <<stampNFT, currencyDistribution, platformCurrency, serialCounter,
                   serial, nftId, pinned, rpc, rdata>>
    /\ UNCHANGED besideMint

\* createNFTFromStamp, step 2: the application-level check for a MintRecord
CreateCheck(c) ==
    /\ pc[c] = "check"
    /\ IF ArchiveIdTaken(stampNFT, item[c])
       THEN Reject(c, "AlreadyMinted")
       ELSE pc' = [pc EXCEPT ![c] = "pin"] /\ UNCHANGED outcome
    /\ UNCHANGED <<stampNFT, currencyDistribution, platformCurrency, serialCounter,
                   item, serial, nftId, pinned, startedMinted, rpc, rdata>>
    /\ UNCHANGED besideMint

\* createNFTFromStamp, steps 3 and 4: valuate, then pin; the primary provider
\* answers or errors
CreatePin(c) ==
    /\ pc[c] = "pin"
    /\ \E ok \in BOOLEAN :
        /\ pinned' = [pinned EXCEPT ![c] = IF ok THEN "ok" ELSE "error"]
        /\ IF ok
           THEN pc' = [pc EXCEPT ![c] = "serial"] /\ UNCHANGED outcome
           ELSE Reject(c, "PinningFailed")
    /\ UNCHANGED <<stampNFT, currencyDistribution, platformCurrency, serialCounter,
                   item, serial, nftId, startedMinted, rpc, rdata>>
    /\ UNCHANGED besideMint

\* the Serial Allocator's increment of a scope's counter: the sequence handed out
NextSequenceFixed(n) == 1

NextSequence(n) == n + 1

\* createNFTFromStamp, step 5: the Serial Allocator's atomic increment-and-read,
\* or Contention once its retries are used up (no sequence is reserved then)
CreateSerial(c) ==
    /\ pc[c] = "serial"
    /\ \/ /\ serialCounter' = [serialCounter EXCEPT ![CountryOf(item[c])] = NextSequence(@)]
          /\ serial' = [serial EXCEPT ![c] =
                          NextSequence(serialCounter[CountryOf(item[c])])]
          /\ pc' = [pc EXCEPT ![c] = AfterCreate(TRUE)]
          /\ UNCHANGED outcome
       \/ /\ Reject(c, "Contention")
          /\ UNCHANGED <<serialCounter, serial>>
    /\ UNCHANGED <<stampNFT, currencyDistribution, platformCurrency,
                   item, nftId, pinned, startedMinted, rpc, rdata>>
    /\ UNCHANGED besideMint

\* db.insert(stampNFT).values({...}): the row is stored, or the store rejects it
\* (a unique constraint, or a failure of the store) and the insert throws
InsertNFT(c) ==
    /\ pc[c] = "insert_nft"
    /\ LET sn == <<CountryOf(item[c]), serial[c]>>
           id == NextId(stampNFT)
       IN  IF ArchiveIdTaken(stampNFT, item[c]) \/ SerialTaken(stampNFT, sn)
           THEN /\ Throw(c, "DuplicateEntry")
                /\ UNCHANGED <<stampNFT, nftId>>
           ELSE \/ /\ stampNFT' = stampNFT \cup
                        {[id |-> id, archiveId |-> item[c], serialNumber |-> sn,
                          nftTokenId |-> "0", ownerId |-> c,
                          metadataUri |-> "ipfs://temp", imageUri |-> "ipfs://temp"]}
                   /\ nftId' = [nftId EXCEPT ![c] = id]
                   /\ pc' = [pc EXCEPT ![c] = "insert_dist"]
                   /\ UNCHANGED outcome
                \/ /\ Throw(c, "StoreError")
                   /\ UNCHANGED <<stampNFT, nftId>>
    /\ UNCHANGED <<currencyDistribution, platformCurrency, serialCounter,
                   item, serial, pinned, startedMinted, rpc, rdata>>
    /\ UNCHANGED besideMint

\* the values of the currencyDistribution row mintNFT inserts
DistributionRowPending(c, id) ==
    [id |-> id, userId |-> c, archiveId |-> item[c], nftId |-> nftId[c],
     distributionType |-> "mint", amount |-> StampCoinValue(item[c]),
     status |-> "pending"]

DistributionRow(c, id) ==
    [id |-> id, userId |-> c, archiveId |-> item[c], nftId |-> nftId[c],
     distributionType |-> "mint", amount |-> StampCoinValue(item[c]),
     status |-> "completed"]

\* db.insert(currencyDistribution).values({...}), a statement of its own: the
\* stampNFT row of the previous statement is already stored
InsertDistribution(c) ==
    /\ pc[c] = "insert_dist"
    /\ \/ /\ currencyDistribution' = currencyDistribution \cup
                {DistributionRow(c, NextId(currencyDistribution))}
          /\ pc' = [pc EXCEPT ![c] = "done"]
          /\ outcome' = [outcome EXCEPT ![c] = "success"]
       \/ /\ Throw(c, "StoreError")
          /\ UNCHANGED currencyDistribution
    /\ UNCHANGED <<stampNFT, platformCurrency, serialCounter,
                   item, serial, nftId, pinned, startedMinted, rpc, rdata>>
    /\ UNCHANGED besideMint

---------------------------------------------------------------------------
(* getCurrencyStats *)

\* if (!currency): findFirst() returned a row
FoundCurrencyNever(rows) == FALSE

FoundCurrency(rows) == rows # {}

\* db.query.platformCurrency.findFirst()
StatsFind(r) ==
    /\ rpc[r] = "idle"
    /\ r > 1 => rpc[r - 1] # "idle"
    /\ IF ~FoundCurrency(platformCurrency)
       THEN rpc' = [rpc EXCEPT ![r] = "create"] /\ UNCHANGED rdata
       ELSE /\ rpc' = [rpc EXCEPT ![r] = "done"]
            /\ rdata' = [rdata EXCEPT ![r] =
                   CHOOSE row \in platformCurrency :
                       \A o \in platformCurrency : row.id <= o.id]
    /\ UNCHANGED <<stampNFT, currencyDistribution, platformCurrency, serialCounter,
                   pc, item, serial, nftId, pinned, outcome, startedMinted>>
    /\ UNCHANGED besideMint

\* no row was found: db.insert(platformCurrency).values({...}) and return it
StatsCreate(r) ==
    /\ rpc[r] = "create"
    /\ LET row == InitialCurrency(NextId(platformCurrency))
       IN  /\ platformCurrency' = platformCurrency \cup {row}
           /\ rdata' = [rdata EXCEPT ![r] = row]
    /\ rpc' = [rpc EXCEPT ![r] = "done"]
    /\ UNCHANGED <<stampNFT, currencyDistribution, serialCounter,
                   pc, item, serial, nftId, pinned, outcome, startedMinted>>
    /\ UNCHANGED besideMint

---------------------------------------------------------------------------

MintNext ==
    \/ \E c \in Callers, i \in Items \cup {MissingItem} : MintCall(c, i)
    \/ \E c \in Callers : CreateCheck(c)
    \/ \E c \in Callers : CreatePin(c)
    \/ \E c \in Callers : CreateSerial(c)
    \/ \E c \in Callers : InsertNFT(c)
    \/ \E c \in Callers : InsertDistribution(c)
    \/ \E r \in Readers : StatsFind(r)
    \/ \E r \in Readers : StatsCreate(r)

---------------------------------------------------------------------------
(* api/pin.js: values *)

MAX_FILE_SIZE == 10 * 1024 * 1024

\* a MIME type is <<type, subtype>>, so that mimeType.split('/')[1] is m[2]
ALLOWED_IMAGE_TYPES ==
    {<<"image", "jpeg">>, <<"image", "png">>, <<"image", "gif">>, <<"image", "webp">>}

MimeTypes == {<<"image", "png">>, <<"image", "webp">>,
              <<"image", "svg+xml">>, <<"text", "html">>}

\* decoded byte lengths of the payloads tried
Sizes == {1024, 5 * 1024 * 1024 + 1, MAX_FILE_SIZE, MAX_FILE_SIZE + 1}

\* A JSON value of the body: t is "undef" (field absent) or "str"; a string is
\* the sequence s of its characters.
Undef == [t |-> "undef", s |-> <<>>]
Str(chars) == [t |-> "str", s |-> chars]

NameValues == {Undef, Str(<<>>), Str(<<"n", "f", "t">>),
               Str(<<"a", "\"", "/", "\r", "\n">>)}

DescriptionValues == {Undef, Str(<<"d">>)}

\* imageBase64: absent, the empty string, a value that is no string, or a
\* string. A string is "bare" (no data: prefix; its text is the base64
\* content), "datauri" (data:<mime>;base64,<content>) or "baddatauri" (starts
\* with data: and does not match /^data:([^;]+);base64,(.+)$/). bytes is the
\* length of the decoded content.
ImageValues ==
    {[kind |-> k, mime |-> <<"image", "png">>, bytes |-> 0] :
         k \in {"undef", "empty", "nonstring", "baddatauri"}}
    \cup {[kind |-> "bare", mime |-> <<"image", "png">>, bytes |-> n] : n \in Sizes}
    \cup {[kind |-> "datauri", mime |-> m, bytes |-> n] : m \in MimeTypes, n \in Sizes}

\* the pinata field of the body: absent, true, 'true', another string
PinataValues == {"undefined", "true", "'true'", "'yes'"}

\* req.body: an object, a string holding JSON, a string JSON.parse rejects, or
\* undefined
BodyKinds == {"object", "json_string", "bad_string", "undefined"}

Requests ==
    [method : {"POST", "GET"}, body : BodyKinds, name : NameValues,
     description : DescriptionValues, imageBase64 : ImageValues,
     pinata : PinataValues]

NoRequest ==
    [method |-> "none", body |-> "undefined", name |-> Undef,
     description |-> Undef,
     imageBase64 |-> [kind |-> "undef", mime |-> <<"image", "png">>, bytes |-> 0],
     pinata |-> "undefined"]

\* how a provider's HTTPS request ends: a 2xx answer with a JSON body, a 2xx
\* answer JSON.parse rejects, another status, or the request's 'error' event
ProviderOutcomes == {"ok", "bad_json", "http_error", "net_error"}

Environments ==
    [NFT_STORAGE_API_KEY : BOOLEAN, PINATA_JWT : BOOLEAN,
     PINATA_API_KEY : BOOLEAN, PINATA_SECRET_API_KEY : BOOLEAN]

---------------------------------------------------------------------------
(* api/pin.js: functions *)

\* ALLOWED_IMAGE_TYPES.includes(mimeType)
AllowedTypeAny(mimeType) == TRUE

AllowedType(mimeType) == mimeType \in ALLOWED_IMAGE_TYPES

\* validateBase64Image: "ok" with {buffer, mimeType}, or the error it throws
validateBase64Image(img) ==
    IF img.kind \in {"undef", "empty", "nonstring"}
    THEN [ok |-> FALSE, error |-> "Invalid image data",
          mimeType |-> <<"", "">>, bytes |-> 0]
    ELSE IF img.kind = "baddatauri"
    THEN [ok |-> FALSE, error |-> "Invalid data URI format",
          mimeType |-> <<"", "">>, bytes |-> 0]
    ELSE LET mimeType == IF img.kind = "datauri" THEN img.mime ELSE <<"image", "png">>
         IN  IF ~AllowedType(mimeType)
             THEN [ok |-> FALSE, error |-> "Unsupported image type",
                   mimeType |-> mimeType, bytes |-> 0]
             ELSE IF img.bytes > MAX_FILE_SIZE
             THEN [ok |-> FALSE, error |-> "File size exceeds maximum allowed size",
                   mimeType |-> mimeType, bytes |-> img.bytes]
             ELSE [ok |-> TRUE, error |-> "", mimeType |-> mimeType,
                   bytes |-> img.bytes]

\* !x || typeof x !== 'string' || x.length === 0
MissingString(v) == v.t # "str" \/ Len(v.s) = 0

\* !imageBase64
MissingImage(img) == img.kind \in {"undef", "empty"}

\* pinToNFTStorage: NFT_STORAGE_API_KEY is set
NFTStorageConfigured(e) == e.NFT_STORAGE_API_KEY

\* pinToPinata: not (!PINATA_JWT && (!PINATA_API_KEY || !PINATA_SECRET_API_KEY))
PinataConfiguredAll(e) == e.PINATA_JWT /\ e.PINATA_API_KEY /\ e.PINATA_SECRET_API_KEY

PinataConfigured(e) ==
    ~(~e.PINATA_JWT /\ (~e.PINATA_API_KEY \/ ~e.PINATA_SECRET_API_KEY))

\* handler: pinata === true || pinata === 'true'
PinataRequested(flag) == flag \in {"true", "'true'"}

\* the file part of the multipart body sent to NFT.Storage
NFTStorageUpload(name, mimeType) ==
    [provider |-> "nft.storage", stem |-> <<"i", "m", "a", "g", "e">>,
     ext |-> mimeType[2]]

\* the file part of the multipart body sent to Pinata
PinataUpload(name, mimeType) ==
    [provider |-> "pinata", stem |-> name.s, ext |-> mimeType[2]]

\* responses: success is "true", "false" or "absent" (no such field), and
\* nftStorage and pinata are "absent", "ok" (a provider result) or "error"
\* ({success: false, error})
Respond(status, success, error, nftStorage, pinata) ==
    [status |-> status, success |-> success, error |-> error,
     nftStorage |-> nftStorage, pinata |-> pinata]

NoResponse == Respond(0, "absent", "", "absent", "absent")

\* res.status(code).json({ error }) of the checks before the image is decoded
Reject4xx(status, error) == Respond(status, "absent", error, "absent", "absent")

\* the handler's catch block: res.status(500).json({ error, success: false })
CatchResponsePartial(error) == Respond(200, "true", error, "error", "absent")

CatchResponse(error) == Respond(500, "false", error, "absent", "absent")

\* the catch around pinToPinata: response.pinata = {success: false, error}, and
\* the handler goes on to res.status(200).json(response)
SecondaryErrorFatal(error) == Respond(500, "false", error, "absent", "absent")

SecondaryErrorResponse(error) == Respond(200, "true", "", "ok", "error")

\* res.status(200).json(response) with response.pinata = pinataResult
SecondaryOkResponse == Respond(200, "true", "", "ok", "ok")

\* res.status(200).json(response) when Pinata was not asked for
PrimaryOnlyResponse == Respond(200, "true", "", "ok", "absent")

ProviderError(provider, how) ==
    IF how = "bad_json" THEN "Failed to parse response"
    ELSE IF how = "http_error" THEN "API error"
    ELSE "request failed"

---------------------------------------------------------------------------
(* api/pin.js: the handler *)

PinInit ==
    /\ env \in Environments
    /\ req = NoRequest
    /\ ppc = "idle"
    /\ calls = <<>>
    /\ primaryOutcome = "none"
    /\ secondaryOutcome = "none"
    /\ res = NoResponse

\* the pinning endpoint at rest, for the behaviours of the mint procedures
PinQuiet ==
    /\ env = [NFT_STORAGE_API_KEY |-> TRUE, PINATA_JWT |-> FALSE,
              PINATA_API_KEY |-> FALSE, PINATA_SECRET_API_KEY |-> FALSE]
    /\ req = NoRequest
    /\ ppc = "idle"
    /\ calls = <<>>
    /\ primaryOutcome = "none"
    /\ secondaryOutcome = "none"
    /\ res = NoResponse

Finish(response) ==
    /\ res' = response
    /\ ppc' = "responded"

\* handler(req, res) up to its first await: the method check, the body, the
\* required fields, validateBase64Image, and pinToNFTStorage up to the request
\* it sends
Receive(r) ==
    /\ ppc = "idle"
    /\ req' = r
    /\ UNCHANGED <<env, secondaryOutcome>>
    /\ IF r.method # "POST"
       THEN Finish(Reject4xx(405, "Method not allowed"))
            /\ UNCHANGED <<calls, primaryOutcome>>
       ELSE IF r.body = "bad_string"
       THEN Finish(Reject4xx(400, "Invalid JSON body"))
            /\ UNCHANGED <<calls, primaryOutcome>>
       ELSE IF r.body = "undefined"
       THEN Finish(CatchResponse("Cannot destructure"))
            /\ UNCHANGED <<calls, primaryOutcome>>
       ELSE IF MissingString(r.name)
       THEN Finish(Reject4xx(400, "Name is required"))
            /\ UNCHANGED <<calls, primaryOutcome>>
       ELSE IF MissingString(r.description)
       THEN Finish(Reject4xx(400, "Description is required"))
            /\ UNCHANGED <<calls, primaryOutcome>>
       ELSE IF MissingImage(r.imageBase64)
       THEN Finish(Reject4xx(400, "Image data is required"))
            /\ UNCHANGED <<calls, primaryOutcome>>
       ELSE LET v == validateBase64Image(r.imageBase64)
            IN  IF ~v.ok
                THEN Finish(CatchResponse(v.error))
                     /\ UNCHANGED <<calls, primaryOutcome>>
                ELSE IF ~NFTStorageConfigured(env)
                THEN /\ Finish(CatchResponse("NFT_STORAGE_API_KEY is not configured"))
                     /\ primaryOutcome' = "not_configured"
                     /\ UNCHANGED calls
                ELSE /\ calls' = Append(calls, NFTStorageUpload(r.name, v.mimeType))
                     /\ ppc' = "primary"
                     /\ UNCHANGED <<primaryOutcome, res>>
    /\ UNCHANGED besidePin

\* pinToNFTStorage resolves on a 2xx answer with a JSON body and rejects otherwise
PrimarySucceededAlways(how) == TRUE

PrimarySucceeded(how) == how = "ok"

\* NFT.Storage's answer arrives: the promise of pinToNFTStorage settles. On
\* success the handler builds the response and, when asked to, calls
\* pinToPinata up to the request it sends.
PrimarySettles(how) ==
    /\ ppc = "primary"
    /\ primaryOutcome' = how
    /\ UNCHANGED <<env, req>>
    /\ IF ~PrimarySucceeded(how)
       THEN /\ Finish(CatchResponse(ProviderError("nft.storage", how)))
            /\ UNCHANGED <<calls, secondaryOutcome>>
       ELSE IF ~PinataRequested(req.pinata)
       THEN /\ Finish(PrimaryOnlyResponse)
            /\ UNCHANGED <<calls, secondaryOutcome>>
       ELSE IF ~PinataConfigured(env)
       THEN /\ Finish(SecondaryErrorResponse("Pinata credentials not configured"))
            /\ secondaryOutcome' = "not_configured"
            /\ UNCHANGED calls
       ELSE /\ calls' = Append(calls,
                   PinataUpload(req.name, validateBase64Image(req.imageBase64).mimeType))
            /\ ppc' = "secondary"
            /\ UNCHANGED <<secondaryOutcome, res>>
    /\ UNCHANGED besidePin

\* Pinata's answer arrives: the promise of pinToPinata settles
SecondarySettles(how) ==
    /\ ppc = "secondary"
    /\ secondaryOutcome' = how
    /\ Finish(IF how = "ok" THEN SecondaryOkResponse
              ELSE SecondaryErrorResponse(ProviderError("pinata", how)))
    /\ UNCHANGED <<env, req, calls, primaryOutcome>>
    /\ UNCHANGED besidePin

\* a client sends some request
ReceiveAny == ppc = "idle" /\ \E r \in Requests : Receive(r)

PinNext ==
    \/ ReceiveAny
    \/ \E how \in ProviderOutcomes : PrimarySettles(how)
    \/ \E how \in ProviderOutcomes : SecondarySettles(how)

---------------------------------------------------------------------------
(* contracts/StampCoinNFT.sol: values *)

\* width in bits of the unsigned words of the model. The contract's are
\* uint256; arithmetic is checked (Solidity 0.8), so a product that does not
\* fit the word reverts, and the model keeps that with a narrower word.
WordBits == 16
UintMax == 2^WordBits - 1

\* token ids the model lets the contract issue: 0 .. MaxTokens - 1
MaxTokens == 2
\* block timestamps 1 .. MaxTime
MaxTime == 2

ROYALTY_FEE == 500
FeeDenominator == 10000

ZeroAddress == "0x0"
Accounts == {"deployer", "alice"}
Recipients == {"alice", ZeroAddress}
Roles == {"MINTER_ROLE", "AUTHENTICATOR_ROLE"}
TokenIds == 0..(MaxTokens - 1)
\* strings passed as physicalStampId
PhysicalIds == {"", "PS-1", "PS-2"}
\* uint8 confidence scores tried
ConfidenceScores == {100, 101}
CertificateUris == {"ipfs://cert"}
\* the accounts whose roles the admin grants and revokes
Grantees == {"alice"}
SalePrices ==
    {0, 19, 20, UintMax \div ROYALTY_FEE, UintMax \div ROYALTY_FEE + 1, UintMax}

\* the value a mapping(uint256 => StampData) holds for a key never written
NoStampData ==
    [physicalStampId |-> "", isAuthenticated |-> FALSE,
     authenticatedBy |-> ZeroAddress, authenticatedAt |-> 0,
     confidenceScore |-> 0, certificateUri |-> ""]

---------------------------------------------------------------------------
(* contracts/StampCoinNFT.sol: functions *)

\* modifier onlyRole(role)
onlyRoleAnyone(role, account) == TRUE

onlyRole(role, account) == account \in roleMembers[role]

\* require(physicalStampToToken[physicalStampId] == 0, ...)
NotYetMinted(physicalStampId) == physicalStampToToken[physicalStampId] = 0

\* require(!stampData[tokenId].isAuthenticated, ...)
NotYetAuthenticatedAlways(tokenId) == TRUE

NotYetAuthenticated(tokenId) == ~stampData[tokenId].isAuthenticated

\* ownerOf(tokenId) of a token that exists; ERC721 reverts for the others
Exists(tokenId) == tokenId \in TokenIds /\ tokenOwner[tokenId] # ZeroAddress

\* (salePrice * ROYALTY_FEE) / 10000
RoyaltyAmountCeil(salePrice) ==
    (salePrice * ROYALTY_FEE + FeeDenominator - 1) \div FeeDenominator

RoyaltyAmount(salePrice) == (salePrice * ROYALTY_FEE) \div FeeDenominator

\* the checked multiplication salePrice * ROYALTY_FEE fits the word
ProductFits(salePrice) == salePrice * ROYALTY_FEE <= UintMax

Called(fn, sender, ok, ret) == [fn |-> fn, sender |-> sender, ok |-> ok, ret |-> ret]

\* the transaction reverts: storage is as before
Revert(fn, sender) ==
    /\ lastCall' = Called(fn, sender, FALSE, <<>>)
    /\ UNCHANGED <<tokenIdCounter, tokenOwner, stampData, physicalStampToToken,
                   roleMembers, royaltyReceiver>>

\* constructor(_royaltyReceiver), sent by the deployer
ChainInit ==
    /\ tokenIdCounter = 0
    /\ tokenOwner = [t \in TokenIds |-> ZeroAddress]
    /\ stampData = [t \in TokenIds |-> NoStampData]
    /\ physicalStampToToken = [p \in PhysicalIds |-> 0]
    /\ roleMembers = [r \in Roles \cup {"DEFAULT_ADMIN_ROLE"} |-> {"deployer"}]
    /\ royaltyReceiver = "receiver"
    /\ blockTime = 1
    /\ lastCall = Called("constructor", "deployer", TRUE, <<>>)

\* mintStamp(to, uri, physicalStampId)
MintStamp(sender, to, physicalStampId) ==
    /\ IF ~onlyRole("MINTER_ROLE", sender)
       THEN Revert("mintStamp", sender)
       ELSE IF physicalStampId = ""
       THEN Revert("mintStamp", sender)
       ELSE IF ~NotYetMinted(physicalStampId)
       THEN Revert("mintStamp", sender)
       ELSE IF to = ZeroAddress
       THEN Revert("mintStamp", sender)
       ELSE LET tokenId == tokenIdCounter
            IN  /\ tokenIdCounter < MaxTokens
                /\ tokenIdCounter' = tokenIdCounter + 1
                /\ tokenOwner' = [tokenOwner EXCEPT ![tokenId] = to]
                /\ stampData' = [stampData EXCEPT ![tokenId] =
                       [NoStampData EXCEPT !.physicalStampId = physicalStampId]]
                /\ physicalStampToToken' =
                       [physicalStampToToken EXCEPT ![physicalStampId] = tokenId]
                /\ lastCall' = Called("mintStamp", sender, TRUE, <<tokenId>>)
                /\ UNCHANGED <<roleMembers, royaltyReceiver>>
    /\ UNCHANGED blockTime
    /\ UNCHANGED besideChain

\* authenticateStamp(tokenId, confidenceScore, certificateUri)
AuthenticateStamp(sender, tokenId, confidenceScore, certificateUri) ==
    /\ IF ~onlyRole("AUTHENTICATOR_ROLE", sender)
       THEN Revert("authenticateStamp", sender)
       ELSE IF ~Exists(tokenId)
       THEN Revert("authenticateStamp", sender)
       ELSE IF ~(confidenceScore <= 100)
       THEN Revert("authenticateStamp", sender)
       ELSE IF ~NotYetAuthenticated(tokenId)
       THEN Revert("authenticateStamp", sender)
       ELSE /\ stampData' = [stampData EXCEPT ![tokenId] =
                   [@ EXCEPT !.isAuthenticated = TRUE,
                             !.authenticatedBy = sender,
                             !.authenticatedAt = blockTime,
                             !.confidenceScore = confidenceScore,
                             !.certificateUri = certificateUri]]
            /\ lastCall' = Called("authenticateStamp", sender, TRUE, <<tokenId>>)
            /\ UNCHANGED <<tokenIdCounter, tokenOwner, physicalStampToToken,
                           roleMembers, royaltyReceiver>>
    /\ UNCHANGED blockTime
    /\ UNCHANGED besideChain

\* royaltyInfo(tokenId, salePrice), a view anyone may call
RoyaltyInfo(tokenId, salePrice) ==
    /\ lastCall' =
           IF ProductFits(salePrice)
           THEN Called("royaltyInfo", "anyone", TRUE,
                       <<salePrice, royaltyReceiver, RoyaltyAmount(salePrice)>>)
           ELSE Called("royaltyInfo", "anyone", FALSE, <<salePrice>>)
    /\ UNCHANGED <<tokenIdCounter, tokenOwner, stampData, physicalStampToToken,
                   roleMembers, royaltyReceiver, blockTime>>
    /\ UNCHANGED besideChain

\* burn(tokenId) of ERC721Burnable, sent by the token's owner
Burn(tokenId) ==
    /\ Exists(tokenId)
    /\ tokenOwner' = [tokenOwner EXCEPT ![tokenId] = ZeroAddress]
    /\ lastCall' = Called("burn", tokenOwner[tokenId], TRUE, <<tokenId>>)
    /\ UNCHANGED <<tokenIdCounter, stampData, physicalStampToToken,
                   roleMembers, royaltyReceiver, blockTime>>
    /\ UNCHANGED besideChain

\* grantRole(role, account) and revokeRole(role, account) of AccessControl
SetRole(sender, role, account, grant) ==
    /\ IF ~onlyRole("DEFAULT_ADMIN_ROLE", sender)
       THEN Revert(IF grant THEN "grantRole" ELSE "revokeRole", sender)
       ELSE /\ roleMembers' = [roleMembers EXCEPT ![role] =
                   IF grant THEN @ \cup {account} ELSE @ \ {account}]
            /\ lastCall' = Called(IF grant THEN "grantRole" ELSE "revokeRole",
                                  sender, TRUE, <<>>)
            /\ UNCHANGED <<tokenIdCounter, tokenOwner, stampData,
                           physicalStampToToken, royaltyReceiver>>
    /\ UNCHANGED blockTime
    /\ UNCHANGED besideChain

\* a later block
NextBlock ==
    /\ blockTime < MaxTime
    /\ blockTime' = blockTime + 1
    /\ UNCHANGED <<tokenIdCounter, tokenOwner, stampData, physicalStampToToken,
                   roleMembers, royaltyReceiver, lastCall>>
    /\ UNCHANGED besideChain

ChainNext ==
    \/ \E a \in Accounts, to \in Recipients, p \in PhysicalIds : MintStamp(a, to, p)
    \/ \E a \in Accounts, t \in 0..MaxTokens, sc \in ConfidenceScores,
          u \in CertificateUris : AuthenticateStamp(a, t, sc, u)
    \/ \E t \in {0, MaxTokens}, price \in SalePrices : RoyaltyInfo(t, price)
    \/ \E t \in TokenIds : Burn(t)
    \/ \E a \in Accounts, r \in Roles, b \in Grantees, grant \in BOOLEAN :
          SetRole(a, r, b, grant)
    \/ NextBlock

\* the contract before any use of it, for the behaviours of the other parts
ChainQuiet == ChainInit

---------------------------------------------------------------------------
(* server/stripe-webhook.ts *)

\* the stripe-signature header: absent, the empty string, a signature that
\* verifies against the body and the secret, or one that does not
SignatureValues == {"absent", "empty", "valid", "invalid"}

\* createStripeClient: the Stripe client, or the mock without .webhooks when
\* STRIPE_SECRET_KEY is not an sk_ key
StripeClients == {"stripe", "mock"}

EventTypes ==
    {"checkout.session.completed", "payment_intent.succeeded",
     "payment_intent.payment_failed", "charge.refunded",
     "charge.dispute.created", "customer.created"}

\* event.id, and whether the session's metadata has user_id and stamp_id
EventIds == {"evt_test_1", "evt_1"}
MetadataValues == {"complete", "missing"}

HookRequests ==
    [sig : SignatureValues, client : StripeClients, eventId : EventIds,
     eventType : EventTypes, metadata : MetadataValues]

NoHookRequest ==
    [sig |-> "absent", client |-> "none", eventId |-> "", eventType |-> "",
     metadata |-> "missing"]

\* what a failed constructEvent throws, by what handleWebhookError looks at:
\* an Error whose message includes 'No signature', one whose message includes
\* 'Signature verification', another Error, or a value that is no Error
ThrownErrors == {"No signature", "Signature verification", "Error", "other"}

\* !sig
SignatureMissingNever(sig) == FALSE

SignatureMissing(sig) == sig \in {"absent", "empty"}

\* handleWebhookError(error)
handleWebhookError(error) ==
    IF error = "No signature"
    THEN [type |-> "MISSING_SIGNATURE", message |-> "Missing Stripe signature header",
          statusCode |-> 400]
    ELSE IF error = "Signature verification"
    THEN [type |-> "INVALID_SIGNATURE", message |-> "Invalid webhook signature",
          statusCode |-> 401]
    ELSE IF error = "Error"
    THEN [type |-> "PROCESSING_ERROR", message |-> "error.message",
          statusCode |-> 500]
    ELSE [type |-> "UNKNOWN_ERROR", message |-> "An unknown error occurred",
          statusCode |-> 500]

\* where the handler is after the try around constructEvent: the catch
\* block returns
AfterConstructFallThrough(result) == "verified"

AfterConstruct(result) == IF result = "event" THEN "verified" ELSE "responded"

\* the handler the switch on event.type invokes, "none" for the default case
HandlerFor(eventType) ==
    IF eventType = "checkout.session.completed" THEN "handleCheckoutSessionCompleted"
    ELSE IF eventType = "payment_intent.succeeded" THEN "handlePaymentIntentSucceeded"
    ELSE IF eventType = "payment_intent.payment_failed"
    THEN "handlePaymentIntentPaymentFailed"
    ELSE IF eventType = "charge.refunded" THEN "handleChargeRefunded"
    ELSE IF eventType = "charge.dispute.created" THEN "handleChargeDisputeCreated"
    ELSE "none"

HookResponse(status, body, type) == [status |-> status, body |-> body, type |-> type]

HookInit ==
    /\ hreq = NoHookRequest
    /\ hpc = "idle"
    /\ constructCalls = <<>>
    /\ handlerCalls = <<>>
    /\ hres = <<>>

\* handleStripeWebhook up to the end of the try around constructEvent
HookReceive(r, thrown) ==
    /\ hpc = "idle"
    /\ hreq' = r
    /\ IF SignatureMissing(r.sig)
       THEN /\ hres' = Append(hres, HookResponse(400, "Missing Stripe signature",
                                                 "MISSING_SIGNATURE"))
            /\ hpc' = "responded"
            /\ UNCHANGED constructCalls
       ELSE IF r.client = "stripe" /\ r.sig = "valid"
       THEN /\ constructCalls' = Append(constructCalls, "event")
            /\ hpc' = AfterConstruct("event")
            /\ UNCHANGED hres
       ELSE LET error == handleWebhookError(IF r.client = "mock" THEN "Error"
                                            ELSE thrown)
            IN  /\ constructCalls' = Append(constructCalls, "threw")
                /\ hres' = Append(hres, HookResponse(error.statusCode,
                                                     error.message, error.type))
                /\ hpc' = AfterConstruct("threw")
    /\ UNCHANGED handlerCalls
    /\ UNCHANGED besideHook

\* the rest of handleStripeWebhook: the test-event answer, or the switch on
\* event.type, the handler it awaits, and the response
HookDispatch ==
    /\ hpc = "verified"
    /\ hpc' = "responded"
    /\ IF hreq.eventId = "evt_test_1"
       THEN /\ hres' = Append(hres, HookResponse(200, "Test event received", ""))
            /\ UNCHANGED handlerCalls
       ELSE /\ handlerCalls' =
                   IF HandlerFor(hreq.eventType) = "none" THEN handlerCalls
                   ELSE Append(handlerCalls, HandlerFor(hreq.eventType))
            /\ IF /\ hreq.eventType = "checkout.session.completed"
                  /\ hreq.metadata = "missing"
               THEN LET error == handleWebhookError("Error")
                    IN  hres' = Append(hres, HookResponse(error.statusCode,
                                                          error.message, error.type))
               ELSE hres' = Append(hres, HookResponse(200, "received", ""))
    /\ UNCHANGED <<hreq, constructCalls>>
    /\ UNCHANGED besideHook

HookReceiveAny ==
    hpc = "idle" /\ \E r \in HookRequests, thrown \in ThrownErrors : HookReceive(r, thrown)

HookNext == HookReceiveAny \/ HookDispatch

---------------------------------------------------------------------------
(* server/nft-minting.ts *)

\* request.imageUrl: absent, the empty string, or a URL
ImageUrls == {"undefined", "", "https://cdn/stamp.png"}

Networks == {"ethereum", "polygon", "solana", "arbitrum", "base"}

\* request.attributes: absent, an empty record, or one with keys that
\* generateNftMetadata reads (among them imageUrl: '')
AttributeValues == {"undefined", "empty", "overrides"}

TitleValues == {"undefined", "Penny Black"}

\* a MintingRequest, or null in place of one
MintingRequests ==
    [kind : {"object"}, imageUrl : ImageUrls, blockchainNetwork : Networks,
     attributes : AttributeValues, title : TitleValues]
    \cup {[kind |-> "null", imageUrl |-> "undefined", blockchainNetwork |-> "ethereum",
           attributes |-> "undefined", title |-> "undefined"]}

\* !request.imageUrl
ImageUrlMissingStrict(imageUrl) == imageUrl = "undefined"

ImageUrlMissing(imageUrl) == imageUrl \in {"undefined", ""}

\* getContractAddress(network)
getContractAddress(network) ==
    IF network = "polygon" THEN "0x2345678901234567890123456789012345678901"
    ELSE IF network = "solana" THEN "StampCoinNFTxxxxxxxxxxxxxxxxxxxxxxxxx"
    ELSE IF network = "arbitrum" THEN "0x3456789012345678901234567890123456789012"
    ELSE "0x1234567890123456789012345678901234567890"

\* a MintingResult; a field the object literal leaves out is "unset"
MintingResult(success, tokenId, contractAddress, transactionHash, metadataUri, errorMessage) ==
    [threw |-> FALSE, success |-> success, tokenId |-> tokenId,
     contractAddress |-> contractAddress, transactionHash |-> transactionHash,
     metadataUri |-> metadataUri, errorMessage |-> errorMessage]

\* the catch block: error.message || 'Unknown minting error'
MintingFailure(message) ==
    MintingResult(FALSE, "unset", "unset", "unset", "unset",
                  IF message = "" THEN "Unknown minting error" ELSE message)

NotCalled == [threw |-> FALSE, success |-> FALSE, tokenId |-> "none",
              contractAddress |-> "none", transactionHash |-> "none",
              metadataUri |-> "none", errorMessage |-> "none"]

ServiceInit ==
    /\ mreq \in MintingRequests
    /\ mres = NotCalled

ServiceQuiet ==
    /\ mreq = [kind |-> "null", imageUrl |-> "undefined",
               blockchainNetwork |-> "ethereum", attributes |-> "undefined",
               title |-> "undefined"]
    /\ mres = NotCalled

\* mintNft(request)
MintNftCall ==
    /\ mres = NotCalled
    /\ mres' =
          IF mreq.kind = "null"
          THEN MintingFailure("Cannot read properties of null")
          ELSE IF ImageUrlMissing(mreq.imageUrl)
          THEN MintingFailure("Image URL is required for minting")
          ELSE MintingResult(TRUE, "0x<random 32 bytes>",
                             getContractAddress(mreq.blockchainNetwork),
                             "0x<random 32 bytes>",
                             "ipfs://QmMock<random>/metadata.json", "unset")
    /\ UNCHANGED mreq
    /\ UNCHANGED besideService

ServiceNext == MintNftCall

---------------------------------------------------------------------------
(* server/archive-router.ts: calculatePrice *)

\* opts.input.denomination, in hundredths
Denominations == {0, 1, 5, 333, 1000}
Years == {1840, 2000}
Conditions == {"mint", "used", "fine", "very_fine"}
Rarities == {"common", "uncommon", "rare", "very_rare", "legendary"}

PriceInputs ==
    [denomination : Denominations, year : Years, condition : Conditions,
     rarity : Rarities]

\* the metadata object calculatePrice hands to calculateStampValue
PriceMetadataNoRarity(input) ==
    [archiveId |-> "temp", country |-> "Unknown", denomination |-> input.denomination,
     year |-> input.year, condition |-> input.condition, rarity |-> "common"]

PriceMetadata(input) ==
    [archiveId |-> "temp", country |-> "Unknown", denomination |-> input.denomination,
     year |-> input.year, condition |-> input.condition, rarity |-> input.rarity]

\* the Pricing Engine's tables, in tenths
RarityMultiplier(rarity) ==
    IF rarity = "uncommon" THEN 15
    ELSE IF rarity = "rare" THEN 30
    ELSE IF rarity = "very_rare" THEN 70
    ELSE IF rarity = "legendary" THEN 150
    ELSE 10

ConditionMultiplier(condition) ==
    IF condition = "mint" THEN 12
    ELSE IF condition = "very_fine" THEN 10
    ELSE IF condition = "fine" THEN 8
    ELSE 5

\* round2 of a value given in ten-thousandths: the nearest hundredth, halves up
Round2(tenThousandths) == (tenThousandths + 50) \div 100

\* archiveService.calculateStampValue(metadata): the Valuation, in hundredths
calculateStampValue(metadata) ==
    [baseValue |-> metadata.denomination,
     rarityMultiplier |-> RarityMultiplier(metadata.rarity),
     conditionMultiplier |-> ConditionMultiplier(metadata.condition),
     finalValue |-> Round2(metadata.denomination
                           * RarityMultiplier(metadata.rarity)
                           * ConditionMultiplier(metadata.condition))]

NoPrice == [success |-> FALSE, data |-> <<>>]

PriceInit ==
    /\ priceInput \in PriceInputs
    /\ priceResult = NoPrice

PriceQuiet ==
    /\ priceInput = [denomination |-> 0, year |-> 2000, condition |-> "used",
                     rarity |-> "common"]
    /\ priceResult = NoPrice

\* the calculatePrice query
CalculatePrice ==
    /\ priceResult = NoPrice
    /\ priceResult' = [success |-> TRUE,
                       data |-> calculateStampValue(PriceMetadata(priceInput))]
    /\ UNCHANGED priceInput
    /\ UNCHANGED besidePrice

PriceNext == CalculatePrice

---------------------------------------------------------------------------
(* Specifications *)

\* concurrent mintNFT and getCurrencyStats requests over one store
\* every other component at rest
RestQuiet == ChainQuiet /\ HookInit /\ ServiceQuiet /\ PriceQuiet

MintSpecInit == MintInit /\ PinQuiet /\ RestQuiet

MintSpec == MintSpecInit /\ [][MintNext]_vars

\* one request to the pinning endpoint, under every configuration
PinSpecInit == MintInit /\ PinInit /\ RestQuiet

PinSpec == PinSpecInit /\ [][PinNext]_vars

\* the same request where NFT.Storage's answer always arrives in the end: the
\* 'end' or 'error' event of its request fires and the callback runs. Nothing
\* in pinToPinata bounds the wait for Pinata's answer (no timeout is set on the
\* request), so no such assumption is made of SecondarySettles.
PinLiveSpec ==
    /\ PinSpecInit
    /\ [][PinNext]_vars
    /\ WF_vars(\E how \in ProviderOutcomes : PrimarySettles(how))

\* the same request where both providers' answers arrive in the end
PinAnsweredSpec ==
    /\ PinSpecInit
    /\ [][PinNext]_vars
    /\ WF_vars(\E how \in ProviderOutcomes : PrimarySettles(how))
    /\ WF_vars(\E how \in ProviderOutcomes : SecondarySettles(how))

\* transactions sent to the deployed StampCoinNFT contract
ChainSpecInit ==
    MintInit /\ PinQuiet /\ ChainInit /\ HookInit /\ ServiceQuiet /\ PriceQuiet

ChainSpec == ChainSpecInit /\ [][ChainNext]_vars

\* one request to the Stripe webhook endpoint
HookSpecInit ==
    MintInit /\ PinQuiet /\ ChainQuiet /\ HookInit /\ ServiceQuiet /\ PriceQuiet

HookSpec == HookSpecInit /\ [][HookNext]_vars

\* one call of mintNft, for every request
ServiceSpecInit ==
    MintInit /\ PinQuiet /\ ChainQuiet /\ HookInit /\ ServiceInit /\ PriceQuiet

ServiceSpec == ServiceSpecInit /\ [][ServiceNext]_vars

\* one calculatePrice query, for every input
PriceSpecInit ==
    MintInit /\ PinQuiet /\ ChainQuiet /\ HookInit /\ ServiceQuiet /\ PriceInit

PriceSpec == PriceSpecInit /\ [][PriceNext]_vars

---------------------------------------------------------------------------
(* Properties of mintNFT and the ledger *)

\* the mintNFT requests made on stamp i
CallsOn(i) == {c \in Callers : pc[c] # "idle" /\ item[c] = i}

\* outcomes that come from the environment (a provider, the allocator or the
\* store failing), not from the race between the requests
Faults == {"PinningFailed", "Contention", "StoreError"}

\* C1: when two or more mint calls on one catalog item have all finished (none
\* of them hit by a provider or store fault), exactly one of them succeeded,
\* exactly one MintRecord for the item exists and every other call ended in
\* AlreadyMinted; and no two MintRecords ever share a catalogItemId.
C1_ExactlyOneMintPerItem ==
    /\ \A i \in Items :
         LET minters == CallsOn(i)
             won   == {c \in minters : outcome[c] = "success"}
         IN  ( /\ Cardinality(minters) >= 2
               /\ \A c \in minters : pc[c] = "done" /\ outcome[c] \notin Faults )
             => /\ Cardinality(won) = 1
                /\ Cardinality({r \in stampNFT : r.archiveId = i}) = 1
                /\ \A c \in minters \ won : outcome[c] = "AlreadyMinted"
    /\ \A r1, r2 \in stampNFT : r1.archiveId = r2.archiveId => r1 = r2

\* C2: a mint reported as failed has left no row a reader could observe:
\* neither a MintRecord nor a CurrencyDistribution row written by it exists.
C2_FailedMintLeavesNoRow ==
    \A c \in Callers :
        (pc[c] = "done" /\ outcome[c] # "success")
            => NFTRowsOf(c) = {} /\ DistRowsOf(c) = {}

\* C3: in every reachable state the LedgerAggregate's circulatingSupply is at
\* most its maxSupply.
C3_SupplyWithinCap ==
    \A row \in platformCurrency : row.circulatingSupply <= row.maxSupply

\* C3 witness: the aggregate row exists and two mints that each fit under the
\* cap alone have both completed, their amounts crossing it together.
C3_Witness ==
    /\ platformCurrency # {}
    /\ \E c1, c2 \in Callers :
        /\ c1 # c2
        /\ outcome[c1] = "success" /\ outcome[c2] = "success"
        /\ StampCoinValue(item[c1]) <= MaxSupply
        /\ StampCoinValue(item[c2]) <= MaxSupply
        /\ StampCoinValue(item[c1]) + StampCoinValue(item[c2]) > MaxSupply

\* the step stores a MintRecord or a CurrencyDistribution row of request c
WritesRow(c) ==
    \/ pc[c] = "insert_nft" /\ stampNFT' # stampNFT
    \/ pc[c] = "insert_dist" /\ currencyDistribution' # currencyDistribution

\* C4: a mint whose credit would take the circulating supply (the completed
\* distributions so far) past maxSupply is rejected: it stores neither a
\* MintRecord nor a CurrencyDistribution row.
C4_CrossingCreditRejected ==
    [][\A c \in Callers :
          CompletedTotal + StampCoinValue(item[c]) > MaxSupply => ~WritesRow(c)]_vars

\* C5: in every reachable state the LedgerAggregate's circulatingSupply equals
\* the sum of the completed distributions minus the burns.
C5_SupplyMatchesDistributions ==
    \A row \in platformCurrency :
        row.circulatingSupply = CompletedTotal - row.burnedSupply

---------------------------------------------------------------------------
(* Properties of the pinning endpoint *)

\* a request was sent to Pinata for the request being handled
PinataCalled == \E k \in 1..Len(calls) : calls[k].provider = "pinata"

\* the secondary provider's credentials are present: a JWT, or the API key
\* together with its secret
CredentialsPresent ==
    env.PINATA_JWT \/ (env.PINATA_API_KEY /\ env.PINATA_SECRET_API_KEY)

PrimaryFailures == {"not_configured", "bad_json", "http_error", "net_error"}

\* C8: when the primary provider's pin has failed the call has failed entirely:
\* the response is an error (status 500, success false, never success true), it
\* carries no provider result, and the secondary provider was not called.
C8_PrimaryFailureFailsCall ==
    primaryOutcome \in PrimaryFailures
        => /\ ppc = "responded"
           /\ res.status = 500
           /\ res.success = "false"
           /\ res.nftStorage = "absent"
           /\ res.pinata = "absent"
           /\ secondaryOutcome = "none"
           /\ ~PinataCalled

\* C8 witness: the primary provider answered with an error status to a request
\* that asked for Pinata as well, with Pinata configured.
C8_Witness ==
    /\ primaryOutcome = "http_error"
    /\ ppc = "responded"
    /\ req.pinata = "true"
    /\ CredentialsPresent

\* C9: when the primary pin succeeded and the call to the configured secondary
\* provider errored, the response is a success (status 200, success true) that
\* carries the primary result, with the secondary outcome reported inside it as
\* an error.
C9_SecondaryErrorTolerated ==
    (primaryOutcome = "ok" /\ secondaryOutcome \in {"bad_json", "http_error", "net_error"})
        => /\ ppc = "responded"
           /\ PinataCalled
           /\ res.status = 200
           /\ res.success = "true"
           /\ res.nftStorage = "ok"
           /\ res.pinata = "error"

\* C9 witness: the primary pin succeeded and the request to Pinata failed.
C9_Witness ==
    /\ primaryOutcome = "ok"
    /\ secondaryOutcome = "net_error"
    /\ CredentialsPresent
    /\ ppc = "responded"

\* C10 as claimed: when the secondary provider's credentials are not configured
\* and the primary pin succeeded, the response is a success with the secondary
\* skipped (no secondary outcome, never an error) and no secondary call was
\* made; and the secondary is called exactly when its credentials are present.
C10_SecondaryDecidedByCredentials ==
    (primaryOutcome = "ok" /\ ppc = "responded")
        => /\ PinataCalled <=> CredentialsPresent
           /\ ~CredentialsPresent
                => /\ res.status = 200
                   /\ res.success = "true"
                   /\ res.pinata = "absent"

\* C10 as amended: whether the secondary is attempted is decided by the
\* request's pinata flag (true or 'true'). Without the flag a successful primary
\* pin returns success with the secondary skipped and no secondary call, the
\* credentials present or not. With the flag and no credentials it returns
\* success with the secondary outcome an error, again without a secondary call;
\* a secondary call is made exactly when the flag is set and the credentials
\* are present.
C10_SecondaryDecidedByFlag ==
    LET asked == req.pinata \in {"true", "'true'"}
    IN  (primaryOutcome = "ok" /\ ppc \in {"secondary", "responded"})
            => /\ PinataCalled <=> (asked /\ CredentialsPresent)
               /\ (ppc = "responded" /\ ~asked)
                    => res = [status |-> 200, success |-> "true", error |-> "",
                              nftStorage |-> "ok", pinata |-> "absent"]
               /\ (ppc = "responded" /\ asked /\ ~CredentialsPresent)
                    => /\ res.status = 200
                       /\ res.success = "true"
                       /\ res.nftStorage = "ok"
                       /\ res.pinata = "error"
                       /\ secondaryOutcome = "not_configured"

\* C10 witness: a request with the pinata flag was answered after a successful
\* primary pin while no Pinata credentials were configured.
C10_Witness ==
    /\ primaryOutcome = "ok"
    /\ ppc = "responded"
    /\ req.pinata = "'true'"
    /\ ~CredentialsPresent

\* the decoded payload is larger than the endpoint's maximum
Oversize(img) == img.kind \in {"bare", "datauri"} /\ img.bytes > MAX_FILE_SIZE

\* the data URL names a MIME type outside the image allow-list
DisallowedType(img) == img.kind = "datauri" /\ img.mime \notin ALLOWED_IMAGE_TYPES

\* a well-formed POST whose name, description and imageBase64 are present
WellFormed(r) ==
    /\ r.method = "POST"
    /\ r.body \in {"object", "json_string"}
    /\ r.name.t = "str" /\ Len(r.name.s) > 0
    /\ r.description.t = "str" /\ Len(r.description.s) > 0
    /\ r.imageBase64.kind \notin {"undef", "empty"}

\* C11: for a request whose decoded payload exceeds the size maximum or whose
\* MIME type is outside the allow-list, no call to the primary or the secondary
\* provider is ever made: the request is answered at once with an error, and
\* neither provider has an outcome.
C11_InvalidPayloadNeverSent ==
    (ppc # "idle" /\ (Oversize(req.imageBase64) \/ DisallowedType(req.imageBase64)))
        => /\ calls = <<>>
           /\ ppc = "responded"
           /\ res.status >= 400
           /\ primaryOutcome = "none"
           /\ secondaryOutcome = "none"

\* C11 witness: a well-formed request carrying a small text/html data URL was
\* rejected by an endpoint whose primary provider is configured.
C11_Witness ==
    /\ ppc = "responded"
    /\ WellFormed(req)
    /\ env.NFT_STORAGE_API_KEY
    /\ DisallowedType(req.imageBase64)
    /\ req.imageBase64.bytes = 1024
    /\ res.error = "Unsupported image type"

\* the request was rejected by the local validation of the image
ValidationRejects(r) ==
    /\ WellFormed(r)
    /\ \/ Oversize(r.imageBase64)
       \/ DisallowedType(r.imageBase64)
       \/ r.imageBase64.kind = "baddatauri"

\* C12: a local validation rejection (oversize payload, disallowed MIME type,
\* malformed data URL) is answered with status 400 or 413, and a provider
\* failure with 500: the two are never reported with the same status.
C12_ValidationStatusDistinct ==
    /\ (ppc = "responded" /\ ValidationRejects(req)) => res.status \in {400, 413}
    /\ (ppc = "responded" /\ primaryOutcome \in PrimaryFailures) => res.status = 500

\* "Maximum file size: 5 MB" (README_DEPLOY.md, Constraints)
DocumentedMaxSize == 5 * 1024 * 1024

\* C13: only payloads of at most 5 MiB reach a provider: a request whose decoded
\* payload is larger is rejected and no provider call is made for it.
C13_FiveMiBMaximum ==
    (ppc # "idle" /\ req.imageBase64.kind \in {"bare", "datauri"}
                 /\ req.imageBase64.bytes > DocumentedMaxSize)
        => /\ calls = <<>>
           /\ ppc = "responded"
           /\ res.status >= 400

\* the characters a sanitized name may hold: [A-Za-z0-9_-]
SafeChars ==
    {"A", "B", "C", "D", "E", "F", "G", "H", "I", "J", "K", "L", "M",
     "N", "O", "P", "Q", "R", "S", "T", "U", "V", "W", "X", "Y", "Z",
     "a", "b", "c", "d", "e", "f", "g", "h", "i", "j", "k", "l", "m",
     "n", "o", "p", "q", "r", "s", "t", "u", "v", "w", "x", "y", "z",
     "0", "1", "2", "3", "4", "5", "6", "7", "8", "9", "_", "-"}

\* C14: the filename stem of every file part sent to a provider holds only
\* characters of [A-Za-z0-9_-], whatever name the caller supplied.
C14_FilenamesSanitized ==
    \A k \in 1..Len(calls) :
        \A j \in 1..Len(calls[k].stem) : calls[k].stem[j] \in SafeChars

\* C15: a pin call that has started is answered in the end, also when the
\* secondary provider never answers.
C15_PinCallReturns == (ppc # "idle") ~> (ppc = "responded")

---------------------------------------------------------------------------
(* Further properties of minting and of the currency records *)

PreWriteFailures == {"NotFound", "AlreadyMinted", "PinningFailed", "Contention"}

\* C17: a mint that fails before the write step (NotFound and the other
\* failures of steps 1-5) results in no MintRecord and no CurrencyDistribution
\* row, and no step a call takes before its write step changes the MintRecords,
\* the distributions or the LedgerAggregate; only the serial counter may move.
C17_PreWriteFailureNoWrites ==
    /\ [](\A c \in Callers :
             /\ (pc[c] # "idle" /\ item[c] = MissingItem)
                  => /\ pc[c] = "done"
                     /\ outcome[c] = "NotFound"
                     /\ {r \in stampNFT : r.archiveId = MissingItem} = {}
             /\ outcome[c] \in PreWriteFailures
                  => /\ NFTRowsOf(c) = {}
                     /\ DistRowsOf(c) = {}
                     /\ nftId[c] = 0)
    /\ [][\A c \in Callers :
             (pc[c] \in {"idle", "check", "pin", "serial"} /\ pc'[c] # pc[c])
                 => UNCHANGED <<stampNFT, currencyDistribution, platformCurrency>>]_vars

\* C17 witness: a call for an item that is not in the catalog has ended in
\* NotFound while another call's mint is stored.
C17_Witness ==
    \E c, d \in Callers :
        /\ outcome[c] = "NotFound"
        /\ item[c] = MissingItem
        /\ pc[c] = "done"
        /\ outcome[d] = "success"

\* the distribution rows that reference the MintRecord of c's mint
RowsForMintOf(c) == {d \in currencyDistribution : d.nftId = nftId[c]}

C19_SingleAggregateRow == Cardinality(platformCurrency) <= 1

---------------------------------------------------------------------------
(* Properties of the StampCoinNFT contract *)

\* the token ids issued so far
Issued == {t \in TokenIds : t < tokenIdCounter}

\* C22: no two tokens carry the same physicalStampId, the first token (id 0)
\* included: a physical stamp id is minted at most once.
C22_PhysicalStampMintedOnce ==
    \A t1, t2 \in Issued :
        t1 # t2 => stampData[t1].physicalStampId # stampData[t2].physicalStampId

\* C23: a mintStamp call sent by an account without MINTER_ROLE reverts and
\* leaves the token counter, the owners, stampData, physicalStampToToken and
\* the roles as they were.
C23_MintNeedsMinterRole ==
    [][(lastCall'.fn = "mintStamp"
            /\ lastCall'.sender \notin roleMembers["MINTER_ROLE"])
          => /\ ~lastCall'.ok
             /\ UNCHANGED <<tokenIdCounter, tokenOwner, stampData,
                            physicalStampToToken, roleMembers>>]_vars

\* C23 witness: alice, who holds no MINTER_ROLE, called mintStamp after a token
\* had been minted, and the call reverted.
C23_Witness ==
    /\ lastCall = Called("mintStamp", "alice", FALSE, <<>>)
    /\ "alice" \notin roleMembers["MINTER_ROLE"]
    /\ tokenIdCounter > 0

C27_AuthenticatedOnce ==
    [][\A t \in TokenIds :
          /\ stampData[t].isAuthenticated => stampData'[t] = stampData[t]
          /\ (~stampData[t].isAuthenticated /\ stampData'[t].isAuthenticated)
                => /\ tokenOwner[t] # ZeroAddress
                   /\ stampData'[t].confidenceScore <= 100
                   /\ stampData'[t].authenticatedBy \in roleMembers["AUTHENTICATOR_ROLE"]
                   /\ stampData'[t].authenticatedAt = blockTime
                   /\ stampData'[t].physicalStampId = stampData[t].physicalStampId
                   /\ lastCall' = Called("authenticateStamp",
                                         stampData'[t].authenticatedBy, TRUE, <<t>>)]_vars

\* C27 witness: token 0, the only token, was authenticated in an earlier block,
\* and the last authenticateStamp call, by another holder of
\* AUTHENTICATOR_ROLE, reverted.
C27_Witness ==
    /\ tokenIdCounter = 1
    /\ tokenOwner[0] # ZeroAddress
    /\ stampData[0].isAuthenticated
    /\ stampData[0].authenticatedAt < blockTime
    /\ lastCall.fn = "authenticateStamp"
    /\ ~lastCall.ok
    /\ lastCall.sender # stampData[0].authenticatedBy
    /\ lastCall.sender \in roleMembers["AUTHENTICATOR_ROLE"]

---------------------------------------------------------------------------
(* Properties of calculatePrice *)

\* the fixed tables of the valuation rule, in tenths
RarityTable ==
    [common |-> 10, uncommon |-> 15, rare |-> 30, very_rare |-> 70, legendary |-> 150]

ConditionTable == [mint |-> 12, very_fine |-> 10, fine |-> 8, used |-> 5]

---------------------------------------------------------------------------
(* Further properties of the pinning endpoint *)

\* imageBase64 is not a data URL of the form data:image/...;base64,...
NotImageDataUrl(img) ==
    \/ img.kind \in {"nonstring", "baddatauri", "bare"}
    \/ img.kind = "datauri" /\ img.mime[1] # "image"

\* C24: a request whose imageBase64 is not a data URL starting with
\* data:image/...;base64, (bare base64 text, for one) is rejected with status
\* 400 and no provider call is made for it.
C24_DataUrlRequired ==
    (ppc # "idle" /\ WellFormed(req) /\ NotImageDataUrl(req.imageBase64))
        => /\ ppc = "responded"
           /\ res.status = 400
           /\ calls = <<>>

\* the calls made to one provider for the request
CallsTo(provider) == {k \in 1..Len(calls) : calls[k].provider = provider}

---------------------------------------------------------------------------
(* Properties of the Stripe webhook *)

\* C25: a webhook request without a stripe-signature header is answered with
\* status 400 and error "Missing Stripe signature"; no event is constructed
\* and no event handler is invoked for it.
C25_MissingSignatureRejected ==
    (hpc # "idle" /\ hreq.sig = "absent")
        => /\ hpc = "responded"
           /\ hres = <<HookResponse(400, "Missing Stripe signature",
                                    "MISSING_SIGNATURE")>>
           /\ constructCalls = <<>>
           /\ handlerCalls = <<>>

\* C25 witness: a request without the header, sent to the real Stripe client
\* with an event that has a handler, was answered.
C25_Witness ==
    /\ hpc = "responded"
    /\ hreq.sig = "absent"
    /\ hreq.client = "stripe"
    /\ hreq.eventId = "evt_1"
    /\ hreq.eventType = "checkout.session.completed"
    /\ Len(hres) = 1

\* the request's signature does not verify: it is wrong, or the client has
\* no webhooks.constructEvent
VerificationFails == hreq.sig = "invalid" \/ hreq.client = "mock"

\* C29: a handler is invoked only after constructEvent has returned an event
\* in the same request, never for a request whose verification failed; a
\* verification failure always ends in one response with a non-2xx status.
C29_HandlersOnlyAfterVerification ==
    /\ handlerCalls # <<>> => (constructCalls = <<"event">> /\ ~VerificationFails)
    /\ Len(handlerCalls) <= 1
    /\ (hpc # "idle" /\ ~SignatureMissing(hreq.sig) /\ VerificationFails)
          => /\ constructCalls = <<"threw">>
             /\ handlerCalls = <<>>
             /\ hpc = "responded"
             /\ Len(hres) = 1
             /\ hres[1].status \notin 200..299

\* C29 witness: a request with an invalid signature for an event that has a
\* handler was answered 401.
C29_Witness ==
    /\ hpc = "responded"
    /\ hreq.sig = "invalid"
    /\ hreq.client = "stripe"
    /\ hreq.eventId = "evt_1"
    /\ hreq.eventType = "charge.refunded"
    /\ constructCalls = <<"threw">>
    /\ hres[1].status = 401

---------------------------------------------------------------------------
(* Properties of mintNft *)

\* request.imageUrl is empty or missing (a null request has none)
NoImageUrl == mreq.kind = "null" \/ mreq.imageUrl \in {"undefined", ""}

\* C30: mintNft never throws; it returns success = false with a non-empty
\* errorMessage exactly when imageUrl is empty or missing, and otherwise
\* success = true with tokenId, contractAddress, transactionHash and
\* metadataUri all set.
C30_MintNftTotal ==
    mres # NotCalled
        => /\ ~mres.threw
           /\ mres.success = ~NoImageUrl
           /\ ~mres.success => mres.errorMessage \notin {"", "unset"}
           /\ mres.success
                 => /\ mres.tokenId \notin {"", "unset"}
                    /\ mres.contractAddress \notin {"", "unset"}
                    /\ mres.transactionHash \notin {"", "unset"}
                    /\ mres.metadataUri \notin {"", "unset"}

\* C30 witness: a request with the empty string for imageUrl got its failure
\* result.
C30_Witness ==
    /\ mres # NotCalled
    /\ mreq.kind = "object"
    /\ mreq.imageUrl = ""
    /\ ~mres.success
    /\ mres.errorMessage = "Image URL is required for minting"

=============================================================================
